---- MODULE Spec2Model ----
(***************************************************************************)
(* Campaign aggregate, persona store and content-generation handlers of   *)
(* the marketing backend, as a state machine over the persistence store.  *)
(* One action per HTTP handler (route validators included); `last` holds  *)
(* the request just served and the status code of its response.           *)
(***************************************************************************)
EXTENDS Integers, Sequences, FiniteSets, TLC

\* ---------------------------------------------------------------- bounds
MaxUsers == 2
MaxCampaigns == 1
MaxPersonas == 2
MaxContent == 2
MaxCollab == 2
MaxDate == 2

\* The request time `new Date()` the route validator compares startDate with.
Now == 1

Users == 1..MaxUsers
CampaignIds == 1..MaxCampaigns
PersonaIds == 1..MaxPersonas
Dates == 0..MaxDate

\* An absent ObjectId reference (undefined / null in the document).
NoUser == 0
\* JavaScript `undefined` where a date is read.
Undefined == -1

Roles == {"viewer", "editor", "admin"}
Statuses == {"draft", "generating", "active", "paused", "completed", "archived"}
ContentTypes == {"email", "social_post", "ad_copy", "blog_post"}
Platforms == {"email", "linkedin", "facebook", "twitter", "instagram", "youtube", "tiktok"}
SocialPlatforms == Platforms \ {"email"}

\* An optional request field: {} when the body does not carry it, {v} when it does.
Opt(S) == {{}} \cup {{x} : x \in S}
Has(o) == o # {}
Val(o) == CHOOSE x \in o : TRUE
OrElse(o, d) == IF o = {} THEN d ELSE Val(o)

\* ----------------------------------------------------------------- state
VARIABLES
  campaigns,    \* Campaign collection: id -> document, for the stored ids
  personas,     \* Persona collection: id -> document, for the stored ids
  aiAvailable,  \* whether OPENAI_API_KEY is set in the process environment
  last,         \* the request just served: [op, actor, cid, pid, fields, n,
                \* generated, errors, calls, code]
  inflight,     \* the appends between their findById and their save():
                \* request -> [op, actor, cid, pid, doc, item, state]
  sockets,      \* every socket accepted so far: socket id -> [userId, connected]
  userSockets,  \* SocketService.userSockets: userId -> socket id
  socketUsers   \* SocketService.socketUsers: socket id -> userId

\* The state of the real-time notifier.
realtime == <<sockets, userSockets, socketUsers>>

vars == <<campaigns, personas, aiAvailable, last, inflight, realtime>>

\* The optional schema paths a campaign body carries beside the mandatory ones.
NoFields == [status |-> {}, userId |-> {}, isArchived |-> {}]
fields(body) ==
  [status |-> body.status, userId |-> body.userId, isArchived |-> body.isArchived]

BodyResponse(op, actor, cid, body, code) ==
  [op |-> op, actor |-> actor, cid |-> cid, pid |-> body.personaId,
   fields |-> fields(body), n |-> 0, generated |-> 0, errors |-> 0, calls |-> 0,
   code |-> code]

\* The answer of a batch: the numbers of entries of data.generatedContent and
\* of data.errors.
BatchResponse(actor, cid, pid, generated, errors) ==
  [op |-> "batchGenerate", actor |-> actor, cid |-> cid, pid |-> pid,
   fields |-> NoFields, n |-> 0, generated |-> generated, errors |-> errors,
   calls |-> 0, code |-> 200]

\* A request for n items.
CountResponse(op, actor, cid, pid, n, code) ==
  [op |-> op, actor |-> actor, cid |-> cid, pid |-> pid,
   fields |-> NoFields, n |-> n, generated |-> 0, errors |-> 0, calls |-> 0,
   code |-> code]

Response(op, actor, cid, pid, code) ==
  [op |-> op, actor |-> actor, cid |-> cid, pid |-> pid,
   fields |-> NoFields, n |-> 0, generated |-> 0, errors |-> 0, calls |-> 0,
   code |-> code]

\* ------------------------------------------------- access-control methods
\* campaignSchema.methods.isOwnedBy
isOwnedBy(campaign, userId) == campaign.userId = userId

\* Array.prototype.find over the collaborators with the predicate
\* c.userId.toString() === userId.toString(): the index of the first match,
\* 0 when there is none, -1 when the predicate throws a TypeError on an
\* entry without userId that is visited before any match.
RECURSIVE findCollaborator(_, _, _)
findCollaborator(collaborators, userId, i) ==
  IF i > Len(collaborators) THEN 0
  ELSE IF collaborators[i].userId = NoUser THEN -1
  ELSE IF collaborators[i].userId = userId THEN i
  ELSE findCollaborator(collaborators, userId, i + 1)

\* campaignSchema.methods.canBeEditedBy: "true", "false" (false or undefined,
\* both falsy) or "TypeError" (the call throws).
canBeEditedBy(campaign, userId) ==
  IF isOwnedBy(campaign, userId) THEN "true"
  ELSE LET i == findCollaborator(campaign.collaborators, userId, 1) IN
       IF i = -1 THEN "TypeError"
       ELSE IF i = 0 THEN "false"
       ELSE IF campaign.collaborators[i].role \in {"editor", "admin"} THEN "true"
       ELSE "false"

\* personaSchema.methods.isOwnedBy
personaIsOwnedBy(persona, userId) ==
  persona.userId # NoUser /\ persona.userId = userId

\* personaSchema.methods.canBeEditedBy
personaCanBeEditedBy(persona, userId) ==
  IF persona.isPredefined THEN FALSE ELSE personaIsOwnedBy(persona, userId)

\* Mutant of personaAccessDenied: the owner comparison is missing.
personaAccessDeniedNever(persona, userId) == FALSE

\* The persona check written out in createCampaign and updateCampaign.
personaAccessDenied(persona, userId) ==
  ~persona.isPredefined /\ persona.userId # NoUser /\ persona.userId # userId

\* The persona check written out in getPersona (userId populated).
getPersonaAccessDenied(persona, userId) ==
  ~persona.isPredefined /\ persona.userId # NoUser /\ persona.userId # userId

\* The persona check written out in the five generation handlers.
generationPersonaDenied(persona, userId) ==
  ~persona.isPredefined /\ persona.userId # NoUser /\ ~personaIsOwnedBy(persona, userId)

\* Mutant of validateCampaign: the endDate rule only asks for a date.
validateCampaignStartOnly(body) ==
  /\ body.startDate # Undefined /\ body.endDate # Undefined
  /\ ~(body.startDate < Now)

\* ------------------------------------------------------------ validation
\* validateCampaign (express-validator), the date rules: startDate not in the
\* past, endDate after startDate. Both fields are mandatory.
validateCampaign(body) ==
  /\ body.startDate # Undefined /\ body.endDate # Undefined
  /\ ~(body.startDate < Now)
  /\ ~(body.endDate <= body.startDate)

\* Mutant of endDateValidator: undefined compares like a date before all dates.
endDateValidatorUndefinedCompares(v, thisStartDate) ==
  v > thisStartDate

\* campaignSchema endDate validator: function (v) { return v > this.startDate; }
\* thisStartDate is what `this.startDate` evaluates to; a comparison with
\* undefined is false.
endDateValidator(v, thisStartDate) ==
  thisStartDate # Undefined /\ v > thisStartDate

\* contentSchema.qualityScore: max
MaxScore == 100

\* contentSchema: the contentType and platform enums (required), and the
\* qualityScore in 0..100, and the other paths (contentBody required and at
\* most 5000 characters, subjectLine at most 200, hashtags starting with #),
\* which item.ok says the item satisfies.
contentValid(item) ==
  /\ item.contentType \in ContentTypes /\ item.platform \in Platforms /\ item.ok
  /\ item.qualityScore \in 0..MaxScore

RECURSIVE allContentValid(_, _)
allContentValid(content, i) ==
  IF i > Len(content) THEN TRUE
  ELSE contentValid(content[i]) /\ allContentValid(content, i + 1)

\* Document validation on save(): `this` is the document.
documentValid(doc) ==
  /\ endDateValidator(doc.endDate, doc.startDate)
  /\ allContentValid(doc.content, 1)

\* Mutant of updateValidatorsPass: `this` is a document holding the update.
updateValidatorsPassOnDocument(body) ==
  endDateValidator(body.endDate, body.startDate)

\* Update validation of findByIdAndUpdate(..., {runValidators: true}): the
\* validators of the paths in the update run with `this` bound to the Query,
\* which has no startDate property. validateCampaign makes endDate a path of
\* every update that reaches the controller.
updateValidatorsPass(body) ==
  endDateValidator(body.endDate, Undefined)

\* ------------------------------------------------------- content scoring
\* The longest text of a number a request or an answer carries.
MaxText == 3

\* The characters of the text the scoring call answers with.
Digits == ("0" :> 0) @@ ("1" :> 1) @@ ("9" :> 9)
ScoreChars == DOMAIN Digits \cup {"-", "x"}

\* The value of the run of digits of text from place i on, after acc.
RECURSIVE digitsValue(_, _, _)
digitsValue(text, i, acc) ==
  IF i > Len(text) \/ text[i] \notin DOMAIN Digits THEN acc
  ELSE digitsValue(text, i + 1, acc * 10 + Digits[text[i]])

\* parseInt(scoreText): an optional sign and the leading digits; NaN when
\* there is none.
parseInt(text) ==
  LET signed == Len(text) > 0 /\ text[1] = "-"
      first == IF signed THEN 2 ELSE 1
  IN IF first > Len(text) \/ text[first] \notin DOMAIN Digits
     THEN [nan |-> TRUE, value |-> 0]
     ELSE [nan |-> FALSE,
           value |-> IF signed THEN 0 - digitsValue(text, first, 0)
                     ELSE digitsValue(text, first, 0)]

Max(a, b) == IF a > b THEN a ELSE b
Min(a, b) == IF a < b THEN a ELSE b

\* The score scoreContentQuality returns when the scoring call fails.
FailedScore == 75

\* Mutant of scoreContentQuality: the score is not brought into 0..100.
scoreContentQualityUnclamped(scoring) ==
  IF scoring.threw THEN FailedScore
  ELSE LET p == parseInt(scoring.text) IN IF p.nan THEN 0 ELSE p.value

\* aiService.scoreContentQuality: scoring.threw says the call (or the reading
\* of its answer) threw, scoring.text is the trimmed text of its answer.
\* parseInt(scoreText) || 0, then Math.max(0, Math.min(100, score)).
scoreContentQuality(scoring) ==
  IF scoring.threw THEN FailedScore
  ELSE LET p == parseInt(scoring.text)
           score == IF p.nan \/ p.value = 0 THEN 0 ELSE p.value
       IN Max(0, Min(MaxScore, score))

\* ---------------------------------------------------------------- inputs
CollabEntries == [userId : Users \cup {NoUser}, role : Roles]

\* Collaborator arrays a create body of user u carries in the main
\* specification: none, one entry for another user, one entry without userId.
BodyCollaborators(u) ==
  {<<>>, <<[userId |-> NoUser, role |-> "editor"]>>}
    \cup {<<[userId |-> v, role |-> r]>> : v \in Users \ {u}, r \in {"viewer", "editor"}}

CreateBodies(u) ==
  [personaId : PersonaIds, startDate : Dates, endDate : Dates,
   userId : Opt(Users \ {u}), status : Opt({"active"}),
   isArchived : {{}}, collaborators : BodyCollaborators(u), metrics : {{}}]

\* Sequences over S of length at most n.
BoundedSeq(S, n) == UNION {[1..k -> S] : k \in 0..n}

\* Create bodies of the access-control specification: every collaborator
\* array of length at most MaxCollab.
AclCreateBodies ==
  [personaId : {1}, startDate : {Now}, endDate : {MaxDate},
   userId : {{}}, status : {{}},
   isArchived : {{}}, collaborators : BoundedSeq(CollabEntries, MaxCollab),
   metrics : {{}}]

\* A PUT body: the mandatory fields, and at most one further schema path.
BaseUpdate(p) ==
  [personaId |-> p, startDate |-> Now, endDate |-> MaxDate,
   status |-> {}, userId |-> {}, isArchived |-> {}]

\* A PUT body with some of the fields only (name, description, budget): it
\* has no startDate and no endDate.
PartialUpdate ==
  [BaseUpdate(1) EXCEPT !.startDate = Undefined, !.endDate = Undefined]

UpdateBodies ==
  {BaseUpdate(p) : p \in PersonaIds}
    \cup {[BaseUpdate(1) EXCEPT !.status = {s}] : s \in Statuses \ {"archived"}}
    \cup {[BaseUpdate(1) EXCEPT !.userId = {u}] : u \in Users}
    \cup {[BaseUpdate(1) EXCEPT !.isArchived = {FALSE}]}
    \cup {[BaseUpdate(1) EXCEPT !.endDate = Now]}
    \cup {PartialUpdate}

\* The bodies of POST /campaigns/:id/content: validateContent checks the
\* platform and the texts, and leaves qualityScore to the schema.
ManualContent ==
  [contentType : {"email"}, platform : {"email", "google-ads"}, ok : {TRUE},
   qualityScore : {FailedScore}]
    \cup {[contentType |-> "email", platform |-> "email", ok |-> TRUE,
           qualityScore |-> MaxScore + 1]}

\* ------------------------------------------------------------------ Init
\* The seeded store: one predefined persona (no owner), no campaigns.
SeedPersona == [userId |-> NoUser, isPredefined |-> TRUE]

Init ==
  /\ campaigns = << >>
  /\ personas = (1 :> SeedPersona)
  /\ aiAvailable \in BOOLEAN
  /\ last = Response("none", NoUser, 0, 0, 0)
  /\ inflight = << >>
  /\ sockets = << >>
  /\ userSockets = << >>
  /\ socketUsers = << >>

\* ------------------------------------------------------ campaign handlers
\* Mutant of newCampaign: req.body is spread last, so its userId wins.
\* A ratio n/d of the metrics is kept as the pair <<n, d>>, d > 0.
Ratio(n, d) == <<n, d>>

\* campaignSchema.metrics with its defaults (the paths the pre-save hook
\* reads and writes).
DefaultMetrics ==
  [totalImpressions |-> 0, totalClicks |-> 0, totalConversions |-> 0,
   totalSpent |-> 0, ctr |-> Ratio(0, 1), cpc |-> Ratio(0, 1), cpa |-> Ratio(0, 1)]

\* campaignSchema.generationSettings with its defaults: the paths the
\* generation handlers write.
DefaultSettings == [customInstructions |-> {}, platforms |-> <<>>]

\* The customInstructions a generation request can carry.
Instructions == {"formal"}

\* campaignSchema.pre("save"): each ratio is recomputed only when its
\* divisor is positive, and is left as it is otherwise.
preSave(doc) ==
  LET m == doc.metrics IN
  [doc EXCEPT !.metrics =
     [m EXCEPT
        !.ctr = IF m.totalImpressions > 0
                THEN Ratio(m.totalClicks * 100, m.totalImpressions) ELSE @,
        !.cpc = IF m.totalClicks > 0
                THEN Ratio(m.totalSpent, m.totalClicks) ELSE @,
        !.cpa = IF m.totalConversions > 0
                THEN Ratio(m.totalSpent, m.totalConversions) ELSE @]]

newCampaignBodyLast(body, userId) ==
  [userId |-> OrElse(body.userId, userId),
   status |-> "draft",
   personaId |-> body.personaId,
   isArchived |-> OrElse(body.isArchived, FALSE),
   collaborators |-> body.collaborators,
   content |-> <<>>,
   metrics |-> OrElse(body.metrics, DefaultMetrics),
   generationSettings |-> DefaultSettings,
   startDate |-> body.startDate, endDate |-> body.endDate]

\* new Campaign({...req.body, userId, status: 'draft'}) with schema defaults.
\* The spread puts userId and status after req.body, so they win over it.
newCampaign(body, userId) ==
  LET spread == [userId |-> OrElse(body.userId, NoUser),
                 status |-> OrElse(body.status, "draft"),
                 personaId |-> body.personaId,
                 isArchived |-> OrElse(body.isArchived, FALSE),
                 collaborators |-> body.collaborators,
                 content |-> <<>>,
                 metrics |-> OrElse(body.metrics, DefaultMetrics),
                 generationSettings |-> DefaultSettings,
                 startDate |-> body.startDate, endDate |-> body.endDate]
  IN [spread EXCEPT !.userId = userId, !.status = "draft"]

\* POST /campaigns
createCampaignCode(body, userId) ==
  IF ~validateCampaign(body) THEN 400
  ELSE IF body.personaId \notin DOMAIN personas THEN 404
  ELSE IF personaAccessDenied(personas[body.personaId], userId) THEN 403
  ELSE IF ~documentValid(newCampaign(body, userId)) THEN 500
  ELSE 201

CreateCampaign(userId, id, body) ==
  /\ id \notin DOMAIN campaigns
  /\ LET code == createCampaignCode(body, userId) IN
     /\ campaigns' = IF code = 201
                     THEN [c \in DOMAIN campaigns \cup {id} |->
                             IF c = id THEN preSave(newCampaign(body, userId))
                             ELSE campaigns[c]]
                     ELSE campaigns
     /\ last' = BodyResponse("create", userId, id, body, code)
  /\ UNCHANGED <<personas, aiAvailable, inflight, realtime>>

\* A populated user reference is the user document, not its id: toString()
\* of a document is its inspect() text, which is the string of no user id.
UserDocument(u) == MaxUsers + u

\* findById(id).populate('userId').populate('collaborators.userId'): every
\* user reference that is set is replaced by the user document.
populate(doc) ==
  [doc EXCEPT !.userId = UserDocument(@),
              !.collaborators =
                 [i \in 1..Len(@) |->
                    [@[i] EXCEPT !.userId = IF @ = NoUser THEN NoUser
                                           ELSE UserDocument(@)]]]

\* GET /campaigns/:id: isOwnedBy and canBeEditedBy are called on the
\* populated document.
getCampaignCode(id, userId) ==
  IF id \notin DOMAIN campaigns THEN 404
  ELSE IF isOwnedBy(populate(campaigns[id]), userId) THEN 200
  ELSE CASE canBeEditedBy(populate(campaigns[id]), userId) = "TypeError" -> 500
         [] canBeEditedBy(populate(campaigns[id]), userId) = "false" -> 403
         [] OTHER -> 200

GetCampaign(userId, id) ==
  /\ last' = Response("get", userId, id, 0, getCampaignCode(id, userId))
  /\ UNCHANGED <<campaigns, personas, aiAvailable, inflight, realtime>>

\* The $set that findByIdAndUpdate(id, {...req.body, updatedAt}) applies.
applyUpdate(doc, body) ==
  [doc EXCEPT !.personaId = body.personaId,
              !.startDate = IF body.startDate = Undefined THEN @ ELSE body.startDate,
              !.endDate = IF body.endDate = Undefined THEN @ ELSE body.endDate,
              !.status = OrElse(body.status, doc.status),
              !.userId = OrElse(body.userId, doc.userId),
              !.isArchived = OrElse(body.isArchived, doc.isArchived)]

\* PUT /campaigns/:id
updateCampaignCode(id, body, userId) ==
  IF ~validateCampaign(body) THEN 400
  ELSE IF id \notin DOMAIN campaigns THEN 404
  ELSE IF canBeEditedBy(campaigns[id], userId) = "TypeError" THEN 500
  ELSE IF canBeEditedBy(campaigns[id], userId) = "false" THEN 403
  ELSE IF body.personaId # campaigns[id].personaId
          /\ body.personaId \notin DOMAIN personas THEN 404
  ELSE IF body.personaId # campaigns[id].personaId
          /\ personaAccessDenied(personas[body.personaId], userId) THEN 403
  ELSE IF ~updateValidatorsPass(body) THEN 500
  ELSE 200

UpdateCampaign(userId, id, body) ==
  /\ LET code == updateCampaignCode(id, body, userId) IN
     /\ campaigns' = IF code = 200
                     THEN [campaigns EXCEPT ![id] = applyUpdate(@, body)]
                     ELSE campaigns
     /\ last' = BodyResponse("update", userId, id, body, code)
  /\ UNCHANGED <<personas, aiAvailable, inflight, realtime>>

\* Mutant of deleteCampaignCode: whoever may edit may delete.
deleteCampaignCodeForEditors(id, userId) ==
  IF id \notin DOMAIN campaigns THEN 404
  ELSE IF canBeEditedBy(campaigns[id], userId) # "true" THEN 403
  ELSE 200

\* DELETE /campaigns/:id
deleteCampaignCode(id, userId) ==
  IF id \notin DOMAIN campaigns THEN 404
  ELSE IF ~isOwnedBy(campaigns[id], userId) THEN 403
  ELSE 200

DeleteCampaign(userId, id) ==
  /\ LET code == deleteCampaignCode(id, userId) IN
     /\ campaigns' = IF code = 200
                     THEN [c \in DOMAIN campaigns \ {id} |-> campaigns[c]]
                     ELSE campaigns
     /\ last' = Response("delete", userId, id, 0, code)
  /\ UNCHANGED <<personas, aiAvailable, inflight, realtime>>

\* Mutant of archive: the flag is left as it was.
archiveStatusOnly(doc) == preSave([doc EXCEPT !.status = "archived"])

\* campaignSchema.methods.archive
archive(doc) == preSave([doc EXCEPT !.isArchived = TRUE, !.status = "archived"])

\* PUT /campaigns/:id/archive
archiveCampaignCode(id, userId) ==
  IF id \notin DOMAIN campaigns THEN 404
  ELSE IF canBeEditedBy(campaigns[id], userId) = "TypeError" THEN 500
  ELSE IF canBeEditedBy(campaigns[id], userId) = "false" THEN 403
  ELSE 200

ArchiveCampaign(userId, id) ==
  /\ LET code == archiveCampaignCode(id, userId) IN
     /\ campaigns' = IF code = 200
                     THEN [campaigns EXCEPT ![id] = archive(@)]
                     ELSE campaigns
     /\ last' = Response("archive", userId, id, 0, code)
  /\ UNCHANGED <<personas, aiAvailable, inflight, realtime>>

\* validateContent (express-validator): the enums of contentType and
\* platform, and the rules of the other fields.
validateContent(item) ==
  item.contentType \in ContentTypes /\ item.platform \in Platforms /\ item.ok

\* Mutant of addContent: the item is put in front (unshift).
addContentInFront(doc, item) == preSave([doc EXCEPT !.content = <<item>> \o @])

\* campaignSchema.methods.addContent: push, then save (document validation).
addContent(doc, item) == preSave([doc EXCEPT !.content = Append(@, item)])

\* POST /campaigns/:id/content
addContentToCampaignCode(id, item, userId) ==
  IF ~validateContent(item) THEN 400
  ELSE IF id \notin DOMAIN campaigns THEN 404
  ELSE IF canBeEditedBy(campaigns[id], userId) = "TypeError" THEN 500
  ELSE IF canBeEditedBy(campaigns[id], userId) = "false" THEN 403
  ELSE IF ~allContentValid(addContent(campaigns[id], item).content, 1) THEN 500
  ELSE 201

AddContentToCampaign(userId, id, item) ==
  /\ id \in DOMAIN campaigns => Len(campaigns[id].content) < MaxContent
  /\ LET code == addContentToCampaignCode(id, item, userId) IN
     /\ campaigns' = IF code = 201
                     THEN [campaigns EXCEPT ![id] = addContent(@, item)]
                     ELSE campaigns
     /\ last' = Response("addContent", userId, id, 0, code)
  /\ UNCHANGED <<personas, aiAvailable, inflight, realtime>>

\* ------------------------------------------------------- persona handlers
\* GET /personas/:id
getPersonaCode(pid, userId) ==
  IF pid \notin DOMAIN personas THEN 404
  ELSE IF getPersonaAccessDenied(personas[pid], userId) THEN 403
  ELSE 200

GetPersona(userId, pid) ==
  /\ last' = Response("getPersona", userId, 0, pid, getPersonaCode(pid, userId))
  /\ UNCHANGED <<campaigns, personas, aiAvailable, inflight, realtime>>

\* POST /personas: new Persona({...req.body, userId, isPredefined: false})
newPersona(userId) == [userId |-> userId, isPredefined |-> FALSE]

CreatePersona(userId, pid) ==
  /\ pid \notin DOMAIN personas
  /\ personas' = [p \in DOMAIN personas \cup {pid} |->
                    IF p = pid THEN newPersona(userId) ELSE personas[p]]
  /\ last' = Response("createPersona", userId, 0, pid, 201)
  /\ UNCHANGED <<campaigns, aiAvailable, inflight, realtime>>

\* The $set of findByIdAndUpdate(id, {...req.body, isPredefined: false}).
applyPersonaUpdate(doc, body) ==
  [doc EXCEPT !.userId = OrElse(body.userId, doc.userId), !.isPredefined = FALSE]

\* Mutant of updatePersonaCode: the permission check is missing.
updatePersonaCodeUnchecked(pid, userId) ==
  IF pid \notin DOMAIN personas THEN 404 ELSE 200

\* PUT /personas/:id
updatePersonaCode(pid, userId) ==
  IF pid \notin DOMAIN personas THEN 404
  ELSE IF ~personaCanBeEditedBy(personas[pid], userId) THEN 403
  ELSE 200

UpdatePersona(userId, pid, body) ==
  /\ LET code == updatePersonaCode(pid, userId) IN
     /\ personas' = IF code = 200
                    THEN [personas EXCEPT ![pid] = applyPersonaUpdate(@, body)]
                    ELSE personas
     /\ last' = Response("updatePersona", userId, 0, pid, code)
  /\ UNCHANGED <<campaigns, aiAvailable, inflight, realtime>>

\* DELETE /personas/:id
deletePersonaCode(pid, userId) ==
  IF pid \notin DOMAIN personas THEN 404
  ELSE IF ~personaCanBeEditedBy(personas[pid], userId) THEN 403
  ELSE 200

DeletePersona(userId, pid) ==
  /\ LET code == deletePersonaCode(pid, userId) IN
     /\ personas' = IF code = 200
                    THEN [p \in DOMAIN personas \ {pid} |-> personas[p]]
                    ELSE personas
     /\ last' = Response("deletePersona", userId, 0, pid, code)
  /\ UNCHANGED <<campaigns, aiAvailable, inflight, realtime>>

\* ---------------------------------------------------- generation handlers
\* Mutant of generationChecks: the lookups come before the capability check.
generationChecksLookupFirst(id, pid, userId) ==
  IF id \notin DOMAIN campaigns THEN 404
  ELSE IF pid \notin DOMAIN personas THEN 404
  ELSE IF ~aiAvailable THEN 503
  ELSE IF canBeEditedBy(campaigns[id], userId) = "TypeError" THEN 500
  ELSE IF canBeEditedBy(campaigns[id], userId) = "false" THEN 403
  ELSE IF generationPersonaDenied(personas[pid], userId) THEN 403
  ELSE 0

\* The early returns every generation handler makes before it calls the
\* capability: 0 when none is taken, else the status code returned.
generationChecks(id, pid, userId) ==
  IF ~aiAvailable THEN 503
  ELSE IF id \notin DOMAIN campaigns THEN 404
  ELSE IF pid \notin DOMAIN personas THEN 404
  ELSE IF canBeEditedBy(campaigns[id], userId) = "TypeError" THEN 500
  ELSE IF canBeEditedBy(campaigns[id], userId) = "false" THEN 403
  ELSE IF generationPersonaDenied(personas[pid], userId) THEN 403
  ELSE 0

\* Mutant of capabilityCalls: the capability is called before the access
\* checks.
capabilityCallsBeforeAccessChecks(pre, k) == IF pre \in {0, 403} THEN k ELSE 0

\* The number of calls of the capability a generation request makes: pre is
\* the code of the early return taken before the call (400 from the route's
\* validation, 0 when none is taken), k the calls the handler makes once it
\* reaches them.
capabilityCalls(pre, k) == IF pre = 0 THEN k ELSE 0

\* The early return of a generation request, route validation included.
earlyReturn(routeOk, id, pid, userId) ==
  IF ~routeOk THEN 400 ELSE generationChecks(id, pid, userId)

\* The answer, with the number of calls of the capability the request made.
called(response, k) == [response EXCEPT !.calls = k]

\* What aiService.generateEmailContent / generateSocialContent / generateAdCopy
\* return: the content type and platform of the generated item. The texts
\* and the score come from the model's answers.
\* The score is the one of a scoring call that failed, unless the request
\* says what the scoring call answers (scored).
emailItem ==
  [contentType |-> "email", platform |-> "email", ok |-> TRUE,
   qualityScore |-> FailedScore]
socialItem(platform) ==
  [contentType |-> "social_post", platform |-> platform, ok |-> TRUE,
   qualityScore |-> FailedScore]
adItem(platform) ==
  [contentType |-> "ad_copy", platform |-> platform, ok |-> TRUE,
   qualityScore |-> FailedScore]

\* A generated item whose texts or score break a rule of contentSchema (an
\* empty body, a subject line of more than 200 characters).
unfit(item) == [item EXCEPT !.ok = FALSE]

\* The loaded document of one request: mem is campaign.content in memory,
\* stored the content in the store, threw whether the last step threw.
loadRun(doc) ==
  [mem |-> doc.content, stored |-> doc.content, threw |-> FALSE,
   generated |-> 0, errors |-> 0, calls |-> 0]

\* campaign.addContent(item) on the loaded document: the item is pushed, and
\* save() persists the array only when the whole document validates; a pushed
\* item that fails validation stays in the in-memory array.
pushAndSave(run, item) ==
  LET mem == Append(run.mem, item) IN
  IF allContentValid(mem, 1)
  THEN [run EXCEPT !.mem = mem, !.stored = mem, !.threw = FALSE]
  ELSE [run EXCEPT !.mem = mem, !.threw = TRUE]

\* The stored document after a run: every save that succeeded went through
\* the pre-save hook; a run without one leaves the document as it was.
\* doc is the stored document, loaded the copy the handler works on: save()
\* writes every path the handler changed on its copy.
storeRun(doc, loaded, run) ==
  IF run.stored = doc.content THEN doc
  ELSE preSave([loaded EXCEPT !.content = run.stored])

\* if (customInstructions) campaign.generationSettings.customInstructions =
\* customInstructions, on the loaded copy.
withInstructions(doc, customInstructions) ==
  IF Has(customInstructions)
  THEN [doc EXCEPT !.generationSettings.customInstructions = customInstructions]
  ELSE doc

\* generateContentVariations: for social_post the handler sets
\* campaign.generationSettings.platforms on the loaded copy.
withPlatforms(doc, contentType, platform) ==
  IF contentType = "social_post"
  THEN [doc EXCEPT !.generationSettings.platforms = <<OrElse(platform, "linkedin")>>]
  ELSE doc

\* What a call of the capability does: it rejects, or it resolves with an
\* item that fits contentSchema or with one that does not.
Answers == {"rejected", "unfit", "fit"}

\* The item a resolved call returns.
answered(item, answer) == IF answer = "unfit" THEN unfit(item) ELSE item

\* A handler that generates one item and adds it.
generateOneCode(id, pid, userId, routeOk, item, answer) ==
  IF ~routeOk THEN 400
  ELSE IF generationChecks(id, pid, userId) # 0 THEN generationChecks(id, pid, userId)
  ELSE IF answer = "rejected" THEN 500
  ELSE IF pushAndSave(loadRun(campaigns[id]), answered(item, answer)).threw THEN 500
  ELSE 200

GenerateOne(op, userId, id, pid, routeOk, item, answer, customInstructions) ==
  /\ id \in DOMAIN campaigns => Len(campaigns[id].content) < MaxContent
  /\ LET code == generateOneCode(id, pid, userId, routeOk, item, answer) IN
     /\ campaigns' = IF code = 200
                     THEN [campaigns EXCEPT ![id] =
                             storeRun(@, withInstructions(@, customInstructions),
                                      pushAndSave(loadRun(campaigns[id]),
                                                  answered(item, answer)))]
                     ELSE campaigns
     /\ last' = called(Response(op, userId, id, pid, code),
                       capabilityCalls(earlyReturn(routeOk, id, pid, userId), 1))
  /\ UNCHANGED <<personas, aiAvailable, inflight, realtime>>

\* POST /content/generate-email
GenerateEmailContent(userId, id, pid, answer, customInstructions) ==
  GenerateOne("generateEmail", userId, id, pid, TRUE, emailItem, answer,
              customInstructions)

\* POST /content/generate-email, with what the scoring call answers.
scored(item, scoring) == [item EXCEPT !.qualityScore = scoreContentQuality(scoring)]

GenerateScoredEmailContent(userId, id, pid, scoring) ==
  GenerateOne("generateEmail", userId, id, pid, TRUE, scored(emailItem, scoring),
              "fit", {})

\* POST /content/generate-social (validateSocialGeneration checks the platform)
GenerateSocialContent(userId, id, pid, platform, answer, customInstructions) ==
  GenerateOne("generateSocial", userId, id, pid, platform \in SocialPlatforms,
              socialItem(platform), answer, customInstructions)

\* POST /content/generate-ad-copy: platform = 'google-ads' when the body has none
GenerateAdCopy(userId, id, pid, platform, answer, customInstructions) ==
  GenerateOne("generateAdCopy", userId, id, pid, TRUE,
              adItem(OrElse(platform, "google-ads")), answer, customInstructions)

MinVariations == 2
MaxVariations == 5

\* validateVariationsGeneration
validateVariationsGeneration(contentType, n, platform) ==
  /\ contentType \in {"email", "social_post", "ad_copy"}
  /\ n >= MinVariations /\ n <= MaxVariations
  /\ Has(platform) => Val(platform) \in SocialPlatforms

\* aiService.generateContentVariations: the item each of the n calls is
\* asked for.
variationItem(contentType, platform) ==
  CASE contentType = "email" -> emailItem
    [] contentType = "social_post" -> socialItem(OrElse(platform, "linkedin"))
    [] OTHER -> adItem("google-ads")

\* Promise.all over the n calls: it rejects when one of them rejects.
anyRejected(answers) == \E i \in 1..Len(answers) : answers[i] = "rejected"

\* The array Promise.all resolves with.
variationItems(contentType, platform, answers) ==
  [i \in 1..Len(answers) |-> answered(variationItem(contentType, platform), answers[i])]

\* for (const content of contentVariations) await campaign.addContent(content):
\* items[k..] are added in turn, each with a save of its own, until one throws.
RECURSIVE addEach(_, _, _)
addEach(run, items, k) ==
  IF k > Len(items) THEN run
  ELSE LET r == pushAndSave(run, items[k]) IN
       IF r.threw THEN r ELSE addEach(r, items, k + 1)

\* POST /content/generate-variations; n is the number of variations asked
\* for and answers[i] what the i-th call of the capability does.
generateContentVariationsCode(id, pid, userId, contentType, n, platform, answers) ==
  IF ~validateVariationsGeneration(contentType, n, platform) THEN 400
  ELSE IF generationChecks(id, pid, userId) # 0 THEN generationChecks(id, pid, userId)
  ELSE IF anyRejected(answers) THEN 500
  ELSE IF addEach(loadRun(campaigns[id]),
                  variationItems(contentType, platform, answers), 1).threw
       THEN 500
  ELSE 200

GenerateContentVariations(userId, id, pid, contentType, n, platform, answers) ==
  /\ Len(answers) = n
  /\ id \in DOMAIN campaigns => Len(campaigns[id].content) + n <= MaxContent
  /\ LET code == generateContentVariationsCode(id, pid, userId, contentType, n,
                                               platform, answers)
         added == validateVariationsGeneration(contentType, n, platform)
                  /\ generationChecks(id, pid, userId) = 0
                  /\ ~anyRejected(answers)
     IN
     /\ campaigns' = IF added
                     THEN [campaigns EXCEPT ![id] =
                             storeRun(@, withPlatforms(@, contentType, platform),
                                      addEach(loadRun(campaigns[id]),
                                              variationItems(contentType, platform,
                                                             answers), 1))]
                     ELSE campaigns
     /\ last' = called(CountResponse("generateVariations", userId, id, pid, n, code),
                       capabilityCalls(
                         earlyReturn(validateVariationsGeneration(contentType, n, platform),
                                     id, pid, userId), n))
  /\ UNCHANGED <<personas, aiAvailable, inflight, realtime>>

\* validateBatchGeneration
validateBatchGeneration(contentTypes, platforms) ==
  /\ Len(contentTypes) >= 1
  /\ \A i \in 1..Len(contentTypes) : contentTypes[i] \in {"email", "social_post", "ad_copy"}
  /\ Len(platforms) >= 1
  /\ \A i \in 1..Len(platforms) : platforms[i] \in Platforms

\* The generation calls one contentType of a batch makes, in order.
batchItems(contentType, platforms) ==
  CASE contentType = "email" -> <<emailItem>>
    [] contentType = "social_post" ->
         LET socialPlatforms == SelectSeq(platforms, LAMBDA p : p # "email") IN
         [i \in 1..Len(socialPlatforms) |-> socialItem(socialPlatforms[i])]
    [] contentType = "ad_copy" -> <<adItem("google-ads")>>
    [] OTHER -> <<>>

\* The body of the try block for one contentType: items[k..] are generated
\* and added in turn; pos is the number of the call for items[k] in the
\* request, answers[pos] what that call of the capability does.
RECURSIVE runGroup(_, _, _, _, _)
runGroup(run, items, k, pos, answers) ==
  IF k > Len(items) THEN run
  ELSE IF answers[pos] = "rejected"
       THEN [run EXCEPT !.threw = TRUE, !.calls = @ + 1]
  ELSE LET r == pushAndSave([run EXCEPT !.calls = @ + 1],
                            answered(items[k], answers[pos])) IN
       IF r.threw THEN r
       ELSE runGroup([r EXCEPT !.generated = @ + 1], items, k + 1, pos + 1, answers)

\* for (const contentType of contentTypes) try { ... } catch { errors.push }
RECURSIVE runBatch(_, _, _, _, _, _)
runBatch(run, contentTypes, platforms, t, pos, answers) ==
  IF t > Len(contentTypes) THEN run
  ELSE LET items == batchItems(contentTypes[t], platforms)
           r == runGroup(run, items, 1, pos, answers)
           caught == [r EXCEPT !.errors = IF r.threw THEN @ + 1 ELSE @,
                               !.threw = FALSE]
       IN runBatch(caught, contentTypes, platforms, t + 1, pos + Len(items), answers)

RECURSIVE batchCalls(_, _, _)
batchCalls(contentTypes, platforms, t) ==
  IF t > Len(contentTypes) THEN 0
  ELSE Len(batchItems(contentTypes[t], platforms))
         + batchCalls(contentTypes, platforms, t + 1)

\* POST /content/batch-generate
batchGenerateContentCode(id, pid, userId, contentTypes, platforms) ==
  IF ~validateBatchGeneration(contentTypes, platforms) THEN 400
  ELSE IF generationChecks(id, pid, userId) # 0 THEN generationChecks(id, pid, userId)
  ELSE 200

\* The handler; answers has one entry for each call the request can make.
BatchGenerate(userId, id, pid, contentTypes, platforms, answers, customInstructions) ==
  /\ Len(answers) = batchCalls(contentTypes, platforms, 1)
  /\ LET code == batchGenerateContentCode(id, pid, userId, contentTypes, platforms)
         run == runBatch(loadRun(campaigns[id]), contentTypes, platforms, 1, 1, answers)
     IN
     /\ campaigns' = IF code = 200
                     THEN [campaigns EXCEPT ![id] =
                             storeRun(@, withInstructions(@, customInstructions), run)]
                     ELSE campaigns
     /\ last' = IF code = 200
                THEN called(BatchResponse(userId, id, pid, run.generated, run.errors),
                            capabilityCalls(0, run.calls))
                ELSE called(Response("batchGenerate", userId, id, pid, code),
                            capabilityCalls(code, batchCalls(contentTypes, platforms, 1)))
  /\ UNCHANGED <<personas, aiAvailable, inflight, realtime>>

\* The campaign has room for k more items below the bound cap.
hasRoom(id, k, cap) ==
  id \in DOMAIN campaigns => Len(campaigns[id].content) + k <= cap

BatchGenerateContent(userId, id, pid, contentTypes, platforms, answers, customInstructions) ==
  /\ hasRoom(id, batchCalls(contentTypes, platforms, 1), MaxContent)
  /\ BatchGenerate(userId, id, pid, contentTypes, platforms, answers, customInstructions)

\* ------------------------------------------------------------------ Next
\* The request shapes the main specification draws.
SocialRequests ==
  {<<"linkedin", "fit">>, <<"linkedin", "rejected">>, <<"linkedin", "unfit">>,
   <<"email", "fit">>}
AdCopyRequests == {<<{}, "fit">>, <<{}, "rejected">>, <<{"linkedin"}, "fit">>}
\* n answers, all "fit" but the k-th, which is a.
answersWith(n, k, a) == [i \in 1..n |-> IF i = k THEN a ELSE "fit"]

VariationRequests ==
  {<<"email", MinVariations - 1, answersWith(MinVariations - 1, 0, "fit")>>}
    \cup {<<t, MinVariations, answersWith(MinVariations, 0, "fit")>> :
            t \in {"email", "social_post", "ad_copy"}}
    \cup {<<"email", MinVariations, answersWith(MinVariations, k, a)>> :
            k \in {1, MinVariations}, a \in {"rejected", "unfit"}}
BatchRequests ==
  {<<<<>>, <<>>>>, <<<<"email">>, <<"fit">>>>, <<<<"email">>, <<"rejected">>>>,
   <<<<"email", "social_post">>, <<"fit", "fit">>>>,
   <<<<"email", "social_post">>, <<"rejected", "fit">>>>,
   <<<<"email", "social_post">>, <<"fit", "rejected">>>>,
   <<<<"email", "social_post">>, <<"unfit", "fit">>>>,
   <<<<"ad_copy", "email">>, <<"fit", "fit">>>>}
BatchPlatforms == <<"email", "linkedin">>

Next ==
  \/ \E u \in Users, id \in CampaignIds : \E b \in CreateBodies(u) : CreateCampaign(u, id, b)
  \/ \E u \in Users, id \in CampaignIds : GetCampaign(u, id)
  \/ \E u \in Users, id \in CampaignIds, b \in UpdateBodies : UpdateCampaign(u, id, b)
  \/ \E u \in Users, id \in CampaignIds : DeleteCampaign(u, id)
  \/ \E u \in Users, id \in CampaignIds : ArchiveCampaign(u, id)
  \/ \E u \in Users, id \in CampaignIds, i \in ManualContent : AddContentToCampaign(u, id, i)
  \/ \E u \in Users, pid \in PersonaIds : GetPersona(u, pid)
  \/ \E u \in Users, pid \in PersonaIds : CreatePersona(u, pid)
  \/ \E u \in Users, pid \in PersonaIds, v \in Opt(Users) :
       UpdatePersona(u, pid, [userId |-> v])
  \/ \E u \in Users, pid \in PersonaIds : DeletePersona(u, pid)
  \/ \E u \in Users, id \in CampaignIds, pid \in PersonaIds, a \in Answers :
       GenerateEmailContent(u, id, pid, a, {})
  \/ \E u \in Users, id \in CampaignIds, pid \in PersonaIds, r \in SocialRequests :
       GenerateSocialContent(u, id, pid, r[1], r[2], {})
  \/ \E u \in Users, id \in CampaignIds, pid \in PersonaIds, r \in AdCopyRequests :
       GenerateAdCopy(u, id, pid, r[1], r[2], {})
  \/ \E u \in Users, id \in CampaignIds, pid \in PersonaIds, r \in VariationRequests :
       GenerateContentVariations(u, id, pid, r[1], r[2], {}, r[3])
  \/ \E u \in Users, id \in CampaignIds, pid \in PersonaIds, r \in BatchRequests :
       BatchGenerateContent(u, id, pid, r[1], BatchPlatforms, r[2], {})

Spec == Init /\ [][Next]_vars

\* The access-control specification: campaigns are created with any
\* collaborator array, archived and deleted.
AclNext ==
  \/ \E u \in Users, id \in CampaignIds, b \in AclCreateBodies : CreateCampaign(u, id, b)
  \/ \E u \in Users, id \in CampaignIds : ArchiveCampaign(u, id)
  \/ \E u \in Users, id \in CampaignIds : DeleteCampaign(u, id)

AclSpec == Init /\ [][AclNext]_vars

\* The batch specification: a campaign without collaborators is created,
\* filled by batches over three platforms, with every combination of answers
\* of the capability, and deleted.
MaxBatch == 3

PlainBodies ==
  [personaId : {1}, startDate : {Now}, endDate : {MaxDate},
   userId : {{}}, status : {{}}, isArchived : {{}}, collaborators : {<<>>},
   metrics : {{}}]

ThreePlatforms == <<"email", "linkedin", "twitter">>

BatchContentTypes ==
  {<<"email">>, <<"email", "social_post">>, <<"social_post", "email">>, <<"social_post">>}

BatchNext ==
  \/ \E u \in Users, id \in CampaignIds, b \in PlainBodies : CreateCampaign(u, id, b)
  \/ \E u \in Users, id \in CampaignIds : DeleteCampaign(u, id)
  \/ \E u \in Users, id \in CampaignIds, pid \in PersonaIds, ct \in BatchContentTypes :
       \E answers \in BoundedSeq(Answers, MaxBatch) :
         /\ hasRoom(id, batchCalls(ct, ThreePlatforms, 1), MaxBatch)
         /\ BatchGenerate(u, id, pid, ct, ThreePlatforms, answers, {})

BatchSpec == Init /\ [][BatchNext]_vars

\* The metrics specification: campaigns are created with any metrics in the
\* body, saved again by archive and by added content, and deleted.
MaxCount == 1

BodyMetrics ==
  [totalImpressions : 0..MaxCount, totalClicks : 0..MaxCount,
   totalConversions : 0..MaxCount, totalSpent : 0..MaxCount,
   ctr : {Ratio(0, 1), Ratio(5, 1)}, cpc : {Ratio(0, 1)}, cpa : {Ratio(0, 1)}]

MetricsBodies ==
  [personaId : {1}, startDate : {Now}, endDate : {MaxDate},
   userId : {{}}, status : {{}}, isArchived : {{}}, collaborators : {<<>>},
   metrics : Opt(BodyMetrics)]

MetricsNext ==
  \/ \E u \in Users, id \in CampaignIds, b \in MetricsBodies : CreateCampaign(u, id, b)
  \/ \E u \in Users, id \in CampaignIds : ArchiveCampaign(u, id)
  \/ \E u \in Users, id \in CampaignIds, i \in ManualContent : AddContentToCampaign(u, id, i)
  \/ \E u \in Users, id \in CampaignIds : DeleteCampaign(u, id)

MetricsSpec == Init /\ [][MetricsNext]_vars

\* ------------------------------------------------------ campaign list
\* const { limit = 10 } = req.query
DefaultLimit == 10

\* The page size the API documentation promises never to exceed.
DocumentedMaxLimit == 50

\* options.limit = parseInt(limit), as Campaign.paginate uses it: a limit that
\* is NaN or not positive asks for no document.
pageLimit(limit) ==
  IF limit = {} THEN DefaultLimit
  ELSE LET p == parseInt(Val(limit)) IN
       IF p.nan \/ p.value <= 0 THEN 0 ELSE p.value

\* The campaigns the query { userId, isArchived: false } matches.
listed(userId) ==
  {id \in DOMAIN campaigns :
     campaigns[id].userId = userId /\ ~campaigns[id].isArchived}

\* GET /campaigns: n is the page size in use, generated the number of
\* campaigns of the page returned.
GetCampaigns(userId, limit) ==
  /\ last' = [CountResponse("getCampaigns", userId, 0, 0, pageLimit(limit), 200)
               EXCEPT !.generated = Min(pageLimit(limit), Cardinality(listed(userId)))]
  /\ UNCHANGED <<campaigns, personas, aiAvailable, inflight, realtime>>

\* The list specification: campaigns are created, archived and deleted, and
\* listed with no limit or with any short text as the limit.
LimitTexts == BoundedSeq(ScoreChars, MaxText)

ListNext ==
  \/ \E u \in Users, id \in CampaignIds, b \in PlainBodies : CreateCampaign(u, id, b)
  \/ \E u \in Users, id \in CampaignIds : ArchiveCampaign(u, id)
  \/ \E u \in Users, id \in CampaignIds : DeleteCampaign(u, id)
  \/ \E u \in Users, limit \in Opt(LimitTexts) : GetCampaigns(u, limit)

ListSpec == Init /\ [][ListNext]_vars

\* The scoring specification: a campaign is created, filled by generated
\* emails whose scoring call fails or answers any short text, and deleted.

Scorings ==
  {[threw |-> TRUE, text |-> <<>>]}
    \cup {[threw |-> FALSE, text |-> t] : t \in BoundedSeq(ScoreChars, MaxText)}

ScoreNext ==
  \/ \E u \in Users, id \in CampaignIds, b \in PlainBodies : CreateCampaign(u, id, b)
  \/ \E u \in Users, id \in CampaignIds : DeleteCampaign(u, id)
  \/ \E u \in Users, id \in CampaignIds, pid \in PersonaIds, scoring \in Scorings :
       GenerateScoredEmailContent(u, id, pid, scoring)

ScoreSpec == Init /\ [][ScoreNext]_vars

\* ------------------------------------------------- concurrent appends
\* A handler that appends awaits twice: Campaign.findById, which gives it a
\* copy of the stored document, and the save() inside campaign.addContent,
\* which writes to the store. Other requests run between the two.
MaxRequests == 2
Requests == 1..MaxRequests

\* Mutant of pushToStored: save() writes the array of the copy.
pushToStoredFromCopy(stored, copy, item) ==
  [stored EXCEPT !.content = Append(copy.content, item)]

\* What save() writes for content.push(item) on a loaded copy: the update
\* { $push: { content: item } } on the stored document, whatever its array
\* holds by then.
pushToStored(stored, copy, item) ==
  [stored EXCEPT !.content = Append(@, item)]

\* The part of a handler up to its addContent call: the answer code of the
\* early return it takes, or else the request is in flight with its copy.
loadForAppend(r, op, userId, id, pid, pre, item) ==
  /\ r \notin DOMAIN inflight
  /\ id \in DOMAIN campaigns =>
       Len(campaigns[id].content)
         + Cardinality({q \in DOMAIN inflight : inflight[q].state = "loaded"}) < MaxContent
  /\ IF pre # 0
     THEN /\ last' = Response(op, userId, id, pid, pre)
          /\ UNCHANGED inflight
     ELSE /\ inflight' = [q \in DOMAIN inflight \cup {r} |->
                            IF q = r
                            THEN [op |-> op, actor |-> userId, cid |-> id, pid |-> pid,
                                  doc |-> campaigns[id], item |-> item,
                                  state |-> "loaded"]
                            ELSE inflight[q]]
          /\ UNCHANGED last
  /\ UNCHANGED <<campaigns, personas, aiAvailable, realtime>>

\* POST /campaigns/:id/content, up to campaign.addContent(req.body)
AddContentLoad(r, userId, id, item) ==
  loadForAppend(r, "addContent", userId, id, 0,
                IF addContentToCampaignCode(id, item, userId) \in {400, 403, 404}
                THEN addContentToCampaignCode(id, item, userId)
                ELSE IF id \in DOMAIN campaigns
                        /\ canBeEditedBy(campaigns[id], userId) = "TypeError" THEN 500
                ELSE 0,
                item)

\* POST /content/generate-email, up to campaign.addContent(emailContent)
GenerateEmailLoad(r, userId, id, pid, answer) ==
  loadForAppend(r, "generateEmail", userId, id, pid,
                IF generationChecks(id, pid, userId) # 0
                THEN generationChecks(id, pid, userId)
                ELSE IF answer = "rejected" THEN 500 ELSE 0,
                answered(emailItem, answer))

\* The save() of a request in flight: the copy with the pushed item is
\* validated, then the push is written to the stored document; a document
\* deleted in between makes save() throw.
SaveLoaded(r) ==
  /\ r \in DOMAIN inflight /\ inflight[r].state = "loaded"
  /\ LET req == inflight[r]
         saves == /\ allContentValid(Append(req.doc.content, req.item), 1)
                  /\ req.cid \in DOMAIN campaigns
         code == IF ~saves THEN 500 ELSE IF req.op = "addContent" THEN 201 ELSE 200
     IN
     /\ campaigns' = IF saves
                     THEN [campaigns EXCEPT ![req.cid] =
                             pushToStored(@, req.doc, req.item)]
                     ELSE campaigns
     /\ inflight' = [inflight EXCEPT ![r].state = IF saves THEN "saved" ELSE "failed"]
     /\ last' = Response(req.op, req.actor, req.cid, req.pid, code)
  /\ UNCHANGED <<personas, aiAvailable, realtime>>

ConcurrentNext ==
  \/ \E u \in Users, id \in CampaignIds, b \in PlainBodies : CreateCampaign(u, id, b)
  \/ \E u \in Users, id \in CampaignIds : ArchiveCampaign(u, id)
  \/ \E r \in Requests, u \in Users, id \in CampaignIds, i \in ManualContent :
       AddContentLoad(r, u, id, i)
  \/ \E r \in Requests, u \in Users, id \in CampaignIds, pid \in PersonaIds,
        a \in Answers : GenerateEmailLoad(r, u, id, pid, a)
  \/ \E r \in Requests : SaveLoaded(r)

ConcurrentSpec == Init /\ [][ConcurrentNext]_vars

\* The settings specification: a campaign without collaborators is created,
\* filled by generation requests with and without customInstructions, and
\* deleted.
SettingsNext ==
  \/ \E u \in Users, id \in CampaignIds, b \in PlainBodies : CreateCampaign(u, id, b)
  \/ \E u \in Users, id \in CampaignIds : DeleteCampaign(u, id)
  \/ \E u \in Users, id \in CampaignIds, pid \in PersonaIds, a \in Answers,
        ci \in Opt(Instructions) : GenerateEmailContent(u, id, pid, a, ci)
  \/ \E u \in Users, id \in CampaignIds, pid \in PersonaIds, a \in Answers,
        ci \in Opt(Instructions) : GenerateSocialContent(u, id, pid, "linkedin", a, ci)
  \/ \E u \in Users, id \in CampaignIds, pid \in PersonaIds, a \in Answers,
        ci \in Opt(Instructions) : GenerateAdCopy(u, id, pid, {"linkedin"}, a, ci)
  \/ \E u \in Users, id \in CampaignIds, pid \in PersonaIds, r \in BatchRequests,
        ci \in Opt(Instructions) :
          BatchGenerateContent(u, id, pid, r[1], BatchPlatforms, r[2], ci)

SettingsSpec == Init /\ [][SettingsNext]_vars

\* ------------------------------------------------- real-time notifier
\* SocketService keeps two Maps: userSockets (userId -> socket id) and
\* socketUsers (socket id -> userId). A socket id is never used twice.
MaxSockets == 3
SocketIds == 1..MaxSockets

\* io.sockets.sockets: the sockets that are still connected.
connected == {s \in DOMAIN sockets : sockets[s].connected}

\* Map.prototype.set and Map.prototype.delete
mapSet(map, key, value) == [k \in DOMAIN map \cup {key} |-> IF k = key THEN value ELSE map[k]]
mapDelete(map, key) == [k \in DOMAIN map \ {key} |-> map[k]]

\* isUserConnected(userId)
isUserConnected(userId) == userId \in DOMAIN userSockets

\* The socket emitToUser(userId) emits to: userSockets.get(userId), 0 when
\* the Map has no entry and the method returns false.
emitTarget(userId) == IF userId \in DOMAIN userSockets THEN userSockets[userId] ELSE 0

\* io.on('connection'): socket passed the authentication middleware as
\* userId; handleConnection stores both mappings.
handleConnection(socket, userId) ==
  /\ socket \notin DOMAIN sockets
  /\ sockets' = mapSet(sockets, socket, [userId |-> userId, connected |-> TRUE])
  /\ userSockets' = mapSet(userSockets, userId, socket)
  /\ socketUsers' = mapSet(socketUsers, socket, userId)
  /\ last' = CountResponse("connection", userId, 0, 0, socket, 0)
  /\ UNCHANGED <<campaigns, personas, aiAvailable, inflight>>

\* The effect of socket.on('disconnect') for a connected socket.
disconnected(socket) ==
  /\ sockets' = [sockets EXCEPT ![socket].connected = FALSE]
  /\ userSockets' = mapDelete(userSockets, sockets[socket].userId)
  /\ socketUsers' = mapDelete(socketUsers, socket)

\* The client of a connected socket goes away.
Disconnect(socket) ==
  /\ socket \in connected
  /\ disconnected(socket)
  /\ last' = CountResponse("disconnect", sockets[socket].userId, 0, 0, socket, 0)
  /\ UNCHANGED <<campaigns, personas, aiAvailable, inflight>>

\* disconnectUser(userId): the socket userSockets names is disconnected when
\* it is still among io.sockets.sockets, which runs its disconnect handler.
DisconnectUser(userId) ==
  LET socket == emitTarget(userId) IN
  /\ IF socket \in connected
     THEN disconnected(socket)
     ELSE UNCHANGED realtime
  /\ last' = CountResponse("disconnectUser", userId, 0, 0,
                           IF socket \in connected THEN socket ELSE 0, 0)
  /\ UNCHANGED <<campaigns, personas, aiAvailable, inflight>>

\* emitToUser(userId, event, data): n is the socket emitted to.
EmitToUser(userId) ==
  /\ last' = CountResponse("emitToUser", userId, 0, 0, emitTarget(userId), 0)
  /\ UNCHANGED <<campaigns, personas, aiAvailable, inflight, realtime>>

SocketNext ==
  \/ \E s \in SocketIds, u \in Users : handleConnection(s, u)
  \/ \E s \in SocketIds : Disconnect(s)
  \/ \E u \in Users : DisconnectUser(u)
  \/ \E u \in Users : EmitToUser(u)

SocketSpec == Init /\ [][SocketNext]_vars

\* ---------------------------------------------------------------- claims
\* In an action formula last' is the request the step served and the
\* unprimed variables are the store it was served on; in a state predicate
\* last is the request just served and the variables the store it left.

\* C1: a delete request on a stored campaign succeeds exactly when the
\* campaign is a draft and the actor is its owner; every other delete request
\* is refused and leaves the campaign stored and unchanged.
C1_DeleteOnlyDraftByOwner ==
  [][ (last'.op = "delete" /\ last'.cid \in DOMAIN campaigns) =>
        IF campaigns[last'.cid].status = "draft"
           /\ isOwnedBy(campaigns[last'.cid], last'.actor)
        THEN last'.code = 200 /\ last'.cid \notin DOMAIN campaigns'
        ELSE last'.code >= 400 /\ campaigns' = campaigns ]_vars

\* The status edges the lifecycle allows.
AllowedEdges ==
  {<<"draft", "generating">>, <<"generating", "active">>, <<"active", "paused">>,
   <<"paused", "completed">>, <<"completed", "archived">>, <<"paused", "active">>}
    \cup {<<s, "archived">> : s \in Statuses \ {"archived"}}

\* C2: in every step the status of a stored campaign stays as it is or moves
\* along an allowed edge, and an update whose body asks for a status that is
\* neither the current one nor reached by an allowed edge is refused and
\* leaves the campaign unchanged.
C2_StatusEdges ==
  [][ /\ \A id \in DOMAIN campaigns \cap DOMAIN campaigns' :
           campaigns'[id].status # campaigns[id].status =>
             <<campaigns[id].status, campaigns'[id].status>> \in AllowedEdges
      /\ (/\ last'.op = "update" /\ last'.cid \in DOMAIN campaigns
          /\ Has(last'.fields.status)
          /\ Val(last'.fields.status) # campaigns[last'.cid].status
          /\ <<campaigns[last'.cid].status, Val(last'.fields.status)>> \notin AllowedEdges)
         => (last'.code >= 400 /\ campaigns' = campaigns) ]_vars

\* An actor who may edit a draft campaign asked for status active (no edge
\* from draft) and was refused.
C2_Witness ==
  /\ last.op = "update" /\ last.code >= 400
  /\ last.cid \in DOMAIN campaigns
  /\ canBeEditedBy(campaigns[last.cid], last.actor) = "true"
  /\ campaigns[last.cid].status = "draft"
  /\ last.fields.status = {"active"}

\* C3: an update of a campaign whose status is completed or archived is
\* refused, for the owner too, and the stored campaign is unchanged.
C3_NoUpdateOnceCompletedOrArchived ==
  [][ (/\ last'.op = "update" /\ last'.cid \in DOMAIN campaigns
       /\ campaigns[last'.cid].status \in {"completed", "archived"})
      => (last'.code >= 400 /\ campaigns' = campaigns) ]_vars

\* The owner's well-formed update of an archived campaign was refused.
C3_Witness ==
  /\ last.op = "update" /\ last.code = 500
  /\ last.cid \in DOMAIN campaigns
  /\ isOwnedBy(campaigns[last.cid], last.actor)
  /\ campaigns[last.cid].status = "archived"

\* C4: archive by an actor who may edit sets status archived and isArchived
\* true, and a stored campaign that has both keeps both in every later step
\* (update, addContent, generation, archive again).
C4_ArchivePermanent ==
  [][ /\ (/\ last'.op = "archive" /\ last'.cid \in DOMAIN campaigns
          /\ canBeEditedBy(campaigns[last'.cid], last'.actor) = "true")
         => /\ last'.code = 200
            /\ campaigns'[last'.cid].status = "archived"
            /\ campaigns'[last'.cid].isArchived
      /\ \A id \in DOMAIN campaigns \cap DOMAIN campaigns' :
           (campaigns[id].status = "archived" /\ campaigns[id].isArchived)
           => (campaigns'[id].status = "archived" /\ campaigns'[id].isArchived) ]_vars

\* Content has been generated into an archived campaign, which is still
\* archived.
C4_Witness ==
  /\ last.op = "generateEmail" /\ last.code = 200
  /\ campaigns[last.cid].status = "archived"
  /\ campaigns[last.cid].isArchived
  /\ Len(campaigns[last.cid].content) > 0

\* C5: a created campaign is owned by the actor who created it, and the owner
\* of a stored campaign is the same after every step, an update whose body
\* names another owner included.
C5_OwnerFixedAtCreation ==
  [][ /\ (last'.op = "create" /\ last'.code = 201)
         => campaigns'[last'.cid].userId = last'.actor
      /\ \A id \in DOMAIN campaigns \cap DOMAIN campaigns' :
           campaigns'[id].userId = campaigns[id].userId ]_vars

\* An actor who may edit sent an update naming a user other than the owner,
\* and the campaign is still the owner's.
C5_Witness ==
  /\ last.op = "update"
  /\ last.cid \in DOMAIN campaigns
  /\ canBeEditedBy(campaigns[last.cid], last.actor) = "true"
  /\ Has(last.fields.userId)
  /\ Val(last.fields.userId) # campaigns[last.cid].userId

GenerationOps ==
  {"generateEmail", "generateSocial", "generateAdCopy", "generateVariations",
   "batchGenerate"}

MutatingOps == {"update", "delete", "archive", "addContent"} \cup GenerationOps

\* The campaign has a collaborator entry naming the user.
isCollaborator(campaign, userId) ==
  \E i \in 1..Len(campaign.collaborators) : campaign.collaborators[i].userId = userId

\* C6: a mutating request on a stored campaign from an actor who is neither
\* its owner nor one of its collaborators is answered with the permission
\* error (403) and leaves the store unchanged. Requests the route validation
\* refuses, and generation requests made while the capability is not
\* configured or naming an absent persona, are left aside: they are answered
\* before the handler looks at the actor.
C6_OutsiderForbidden ==
  [][ (/\ last'.op \in MutatingOps /\ last'.cid \in DOMAIN campaigns
       /\ ~isOwnedBy(campaigns[last'.cid], last'.actor)
       /\ ~isCollaborator(campaigns[last'.cid], last'.actor)
       /\ last'.code # 400
       /\ last'.op \in GenerationOps => (aiAvailable /\ last'.pid \in DOMAIN personas))
      => (last'.code = 403 /\ campaigns' = campaigns) ]_vars

\* C7: canBeEditedBy(campaign, user) is true exactly when the user is the
\* owner or the campaign has a collaborator entry for the user with role
\* editor or admin. Stated for the campaigns all of whose collaborator
\* entries name a user, where canBeEditedBy cannot throw.
C7_EditableIffOwnerOrEditorEntry ==
  \A id \in DOMAIN campaigns, u \in Users :
    (\A i \in 1..Len(campaigns[id].collaborators) :
        campaigns[id].collaborators[i].userId # NoUser)
    =>
    ((canBeEditedBy(campaigns[id], u) = "true")
      <=> \/ isOwnedBy(campaigns[id], u)
          \/ \E i \in 1..Len(campaigns[id].collaborators) :
               /\ campaigns[id].collaborators[i].userId = u
               /\ campaigns[id].collaborators[i].role \in {"editor", "admin"})

\* C8: a delete request from an actor who is not the owner, a collaborator of
\* any role included, is answered 403 and leaves the campaign stored and
\* unchanged; a campaign leaves the store only by its owner's delete.
C8_OnlyOwnerDeletes ==
  [][ /\ (/\ last'.op = "delete" /\ last'.cid \in DOMAIN campaigns
          /\ ~isOwnedBy(campaigns[last'.cid], last'.actor))
         => (last'.code = 403 /\ campaigns' = campaigns)
      /\ \A id \in DOMAIN campaigns \ DOMAIN campaigns' :
           /\ last'.op = "delete" /\ last'.cid = id
           /\ isOwnedBy(campaigns[id], last'.actor) ]_vars

\* A collaborator with role admin asked to delete the campaign, was answered
\* 403, and the campaign is stored.
C8_Witness ==
  /\ last.op = "delete" /\ last.code = 403
  /\ last.cid \in DOMAIN campaigns
  /\ \E i \in 1..Len(campaigns[last.cid].collaborators) :
       campaigns[last.cid].collaborators[i] = [userId |-> last.actor, role |-> "admin"]

\* C9: on a predefined persona canBeEditedBy is false for every user, an
\* update or delete request naming it is answered 403, and every step leaves
\* it stored as it was.
C9_PredefinedImmutable ==
  [][ \A pid \in DOMAIN personas :
        personas[pid].isPredefined =>
          /\ \A u \in Users : ~personaCanBeEditedBy(personas[pid], u)
          /\ pid \in DOMAIN personas' /\ personas'[pid] = personas[pid]
          /\ (last'.op \in {"updatePersona", "deletePersona"} /\ last'.pid = pid)
             => last'.code = 403 ]_vars

\* A user asked to delete a predefined persona, was answered 403, and the
\* persona is stored and predefined.
C9_Witness ==
  /\ last.op = "deletePersona" /\ last.code = 403
  /\ last.pid \in DOMAIN personas
  /\ personas[last.pid].isPredefined

\* personaReadable of the specification: predefined, or owned by the user.
personaReadable(persona, userId) ==
  persona.isPredefined \/ persona.userId = userId

\* C10: a request that reaches the persona check of getPersona, of campaign
\* create, of a campaign update that changes personaId, or of a generation
\* handler (it passed the route validation, names a stored persona and, where
\* the handler looks at a campaign first, a stored campaign its actor may
\* edit, with the capability configured) is answered 403 exactly when the
\* persona is neither predefined nor owned by the actor, and then changes
\* nothing.
C10_PersonaReadableIffPredefinedOrOwned ==
  [][ (/\ last'.pid \in DOMAIN personas
       /\ last'.code # 400
       /\ \/ last'.op = "getPersona"
          \/ last'.op = "create"
          \/ /\ last'.op = "update"
             /\ last'.cid \in DOMAIN campaigns
             /\ canBeEditedBy(campaigns[last'.cid], last'.actor) = "true"
             /\ last'.pid # campaigns[last'.cid].personaId
          \/ /\ last'.op \in GenerationOps
             /\ aiAvailable
             /\ last'.cid \in DOMAIN campaigns
             /\ canBeEditedBy(campaigns[last'.cid], last'.actor) = "true")
      => /\ last'.code = 403 <=> ~personaReadable(personas[last'.pid], last'.actor)
         /\ ~personaReadable(personas[last'.pid], last'.actor)
            => (campaigns' = campaigns /\ personas' = personas) ]_vars

\* The owner of a campaign asked to move it to a stored persona of another
\* user and was answered 403.
C10_Witness ==
  /\ last.op = "update" /\ last.code = 403
  /\ last.cid \in DOMAIN campaigns /\ last.pid \in DOMAIN personas
  /\ isOwnedBy(campaigns[last.cid], last.actor)
  /\ last.pid # campaigns[last.cid].personaId
  /\ ~personaReadable(personas[last.pid], last.actor)

\* The campaign has a collaborator entry without a user reference.
hasEntryWithoutUser(campaign) ==
  \E i \in 1..Len(campaign.collaborators) : campaign.collaborators[i].userId = NoUser

\* C11: the permission checks fail closed. A request on a stored persona that
\* is not predefined and has no owner is answered 403 for every user, and a
\* request that reaches the permission check of a campaign holding a
\* collaborator entry without a user reference, from an actor who is not the
\* owner and is named by no entry, is answered 403: never a grant, never an
\* error of another kind.
C11_FailClosed ==
  [][ /\ (/\ last'.op \in {"getPersona", "updatePersona", "deletePersona"}
          /\ last'.pid \in DOMAIN personas
          /\ ~personas[last'.pid].isPredefined
          /\ personas[last'.pid].userId = NoUser)
         => (last'.code = 403 /\ personas' = personas)
      /\ (/\ last'.op \in MutatingOps \ {"delete"}
          /\ last'.cid \in DOMAIN campaigns
          /\ hasEntryWithoutUser(campaigns[last'.cid])
          /\ ~isOwnedBy(campaigns[last'.cid], last'.actor)
          /\ ~isCollaborator(campaigns[last'.cid], last'.actor)
          /\ last'.code # 400
          /\ last'.op \in GenerationOps => (aiAvailable /\ last'.pid \in DOMAIN personas))
         => (last'.code = 403 /\ campaigns' = campaigns) ]_vars

\* C12: while the generation capability is not configured, every generation
\* request that passes the route validation is answered 503, whether or not
\* the campaign and the persona it names are stored (the lookups are not
\* reached), and no generation request changes the store.
C12_UnavailableBeforeLookup ==
  [][ (last'.op \in GenerationOps /\ ~aiAvailable)
      => /\ campaigns' = campaigns /\ personas' = personas
         /\ last'.code # 400 => last'.code = 503 ]_vars

\* A generation request naming no stored campaign was answered 503, not 404.
C12_Witness ==
  /\ ~aiAvailable
  /\ last.op = "generateSocial" /\ last.code = 503
  /\ last.cid \notin DOMAIN campaigns

\* C13: a generate-variations request for n variations leaves either n
\* items or no item appended to the campaign, never a number in between.
C13_VariationsAllOrNothing ==
  [][ (/\ last'.op = "generateVariations"
       /\ last'.cid \in DOMAIN campaigns /\ last'.cid \in DOMAIN campaigns')
      => Len(campaigns'[last'.cid].content) - Len(campaigns[last'.cid].content)
           \in {0, last'.n} ]_vars

\* The number of calls of a batch that failed.
failedCalls(answers) == Cardinality({i \in 1..Len(answers) : answers[i] # "fit"})

\* C14: a batch is best-effort per item.  For contentTypes email + social_post
\* over the platforms email, linkedin, twitter, served to an actor who may
\* generate, with f <= 1 of its three generation calls rejected by the
\* capability, the answer lists f errors and 3 - f generated items, and
\* exactly 3 - f items are appended to the campaign: 1 email + 2 social items
\* when every call succeeds, 2 items and 1 error when one call fails,
\* whichever it is.
C14_BatchBestEffortPerItem ==
  [][ \A u \in Users, pid \in PersonaIds :
        \A answers \in [1..3 -> {"fit", "rejected"}] :
          ( /\ 1 \in DOMAIN campaigns
            /\ failedCalls(answers) <= 1
            /\ BatchGenerate(u, 1, pid, <<"email", "social_post">>, ThreePlatforms,
                             answers, {})
            /\ last'.code = 200 )
          => /\ last'.errors = failedCalls(answers)
             /\ last'.generated = 3 - failedCalls(answers)
             /\ Len(campaigns'[1].content) - Len(campaigns[1].content)
                  = 3 - failedCalls(answers) ]_vars

\* The step appended exactly one item to campaign 1 and answered 200.
appendedOne ==
  /\ last'.code = 200
  /\ 1 \in DOMAIN campaigns'
  /\ Len(campaigns'[1].content) = Len(campaigns[1].content) + 1

\* C15: a single-type generation (generate-email, generate-social,
\* generate-ad-copy) asked by an actor who passes every check of the handler,
\* with the capability available and its generation call returning a
\* well-formed text, answers 200 and appends exactly one item; for
\* generate-ad-copy with or without a platform in the request.
C15_SingleGenerationAppendsOne ==
  [][ \A u \in Users, pid \in PersonaIds :
        generationChecks(1, pid, u) = 0 =>
          /\ GenerateEmailContent(u, 1, pid, "fit", {}) => appendedOne
          /\ \A p \in SocialPlatforms :
               GenerateSocialContent(u, 1, pid, p, "fit", {}) => appendedOne
          /\ \A p \in Opt(SocialPlatforms) :
               GenerateAdCopy(u, 1, pid, p, "fit", {}) => appendedOne ]_vars

\* C16: a create that succeeds stores a campaign owned by the actor, with
\* status draft, isArchived false, and empty content and collaborators
\* sequences, whatever the request body holds.
C16_CreateYieldsFreshDraft ==
  [][ (last'.op = "create" /\ last'.code = 201)
      => LET c == campaigns'[last'.cid] IN
         /\ c.userId = last'.actor
         /\ c.status = "draft"
         /\ c.isArchived = FALSE
         /\ c.content = <<>>
         /\ c.collaborators = <<>> ]_vars

\* The ratio r is n/d when d > 0, and 0 otherwise.
ratioIs(r, n, d) == IF d > 0 THEN r[1] * d = n * r[2] ELSE r[1] = 0

\* C17: in every stored campaign ctr = clicks/impressions*100 when
\* impressions > 0 and 0 otherwise, cpc = spend/clicks when clicks > 0 and 0
\* otherwise, cpa = spend/conversions when conversions > 0 and 0 otherwise.
C17_DerivedRatios ==
  \A id \in DOMAIN campaigns :
    LET m == campaigns[id].metrics IN
    /\ ratioIs(m.ctr, m.totalClicks * 100, m.totalImpressions)
    /\ ratioIs(m.cpc, m.totalSpent, m.totalClicks)
    /\ ratioIs(m.cpa, m.totalSpent, m.totalConversions)

\* The bodies whose endDate is not after their startDate.
BadlyDatedCreates == [u \in Users |-> {b \in CreateBodies(u) : b.endDate <= b.startDate}]
BadlyDatedUpdates == {b \in UpdateBodies : b.endDate <= b.startDate}

C19_ContentAppendOnly ==
  [][ \A id \in DOMAIN campaigns \cap DOMAIN campaigns' :
        /\ Len(campaigns[id].content) <= Len(campaigns'[id].content)
        /\ campaigns[id].content
             = SubSeq(campaigns'[id].content, 1, Len(campaigns[id].content)) ]_vars

\* An item was added by hand to a campaign that already held a different
\* item, and the campaign holds both, the earlier one first.
C19_Witness ==
  /\ last.op = "addContent" /\ last.code = 201
  /\ last.cid \in DOMAIN campaigns
  /\ Len(campaigns[last.cid].content) = 2
  /\ campaigns[last.cid].content[1] # campaigns[last.cid].content[2]

\* Some stored campaign refers to persona pid.
referenced(pid) == \E id \in DOMAIN campaigns : campaigns[id].personaId = pid

\* C20: a delete of a stored persona that some campaign refers to is refused
\* and the persona stays stored, so the persona of every stored campaign is
\* a stored persona.
C20_ReferencedPersonaStays ==
  [][ /\ (last'.op = "deletePersona" /\ last'.pid \in DOMAIN personas
          /\ referenced(last'.pid))
         => (last'.code # 200 /\ last'.pid \in DOMAIN personas')
      /\ \A id \in DOMAIN campaigns' :
           campaigns'[id].personaId \in DOMAIN personas' ]_vars

\* The update bodies that hold mutable fields only (no status, owner or
\* archive flag) and, when they hold the dates, well-ordered ones.
MutableUpdates ==
  {b \in UpdateBodies :
     /\ fields(b) = NoFields
     /\ b = PartialUpdate \/ (b.startDate >= Now /\ b.endDate > b.startDate)}

\* C21: an update from an actor who may edit the campaign, holding any subset
\* of the mutable fields and keeping the persona, answers 200 and changes
\* exactly the fields of the body.
C21_PartialUpdateSucceeds ==
  [][ (/\ last'.op = "update"
       /\ last'.cid \in DOMAIN campaigns
       /\ canBeEditedBy(campaigns[last'.cid], last'.actor) = "true")
      => \A b \in MutableUpdates :
           (/\ b.personaId = campaigns[last'.cid].personaId
            /\ UpdateCampaign(last'.actor, last'.cid, b))
           => /\ last'.code = 200
              /\ campaigns' = [campaigns EXCEPT ![last'.cid] = applyUpdate(@, b)] ]_vars

\* C22: a generation request that calls the capability has passed the
\* validation of the route, names a stored campaign and a stored persona,
\* and its actor may edit the campaign and may use the persona; any other
\* generation request makes no call.
C22_CallsOnlyAfterChecks ==
  [][ (last'.op \in GenerationOps /\ last'.calls > 0)
      => /\ last'.code # 400
         /\ last'.cid \in DOMAIN campaigns
         /\ last'.pid \in DOMAIN personas
         /\ canBeEditedBy(campaigns[last'.cid], last'.actor) = "true"
         /\ ~generationPersonaDenied(personas[last'.pid], last'.actor) ]_vars

\* A batch called the capability more than once for an actor who passed
\* every check.
C22_Witness ==
  /\ last.op = "batchGenerate" /\ last.calls > 1
  /\ last.cid \in DOMAIN campaigns /\ last.pid \in DOMAIN personas
  /\ canBeEditedBy(campaigns[last.cid], last.actor) = "true"

\* C23: a generation request leaves the stored generationSettings of its
\* campaign as they were: the content is the only path of the campaign it
\* changes.
C23_InstructionsNotStored ==
  [][ (last'.op \in GenerationOps /\ last'.cid \in DOMAIN campaigns)
      => /\ campaigns'[last'.cid].generationSettings
              = campaigns[last'.cid].generationSettings
         /\ campaigns'[last'.cid]
              = [campaigns[last'.cid] EXCEPT !.content = campaigns'[last'.cid].content]
    ]_vars

\* The requests in flight that have saved their item x to campaign id.
savedWith(id, x) ==
  {r \in DOMAIN inflight :
     inflight[r].state = "saved" /\ inflight[r].cid = id /\ inflight[r].item = x}

\* The places of item x in a content sequence.
placesOf(content, x) == {i \in 1..Len(content) : content[i] = x}

\* C24: no append is lost. Every request that has saved its item to a
\* campaign, whatever ran between its load and its save, has its item in the
\* stored content: each item is stored at least as many times as requests
\* have saved it.
C24_NoLostAppend ==
  \A id \in DOMAIN campaigns :
    \A r \in DOMAIN inflight :
      (inflight[r].state = "saved" /\ inflight[r].cid = id)
      => Cardinality(savedWith(id, inflight[r].item))
           <= Cardinality(placesOf(campaigns[id].content, inflight[r].item))

\* A manual add and a generation loaded the same empty campaign, both have
\* saved, and the campaign holds two items.
C24_Witness ==
  /\ DOMAIN inflight = Requests
  /\ \A r \in Requests :
       /\ inflight[r].state = "saved"
       /\ inflight[r].cid = 1
       /\ inflight[r].doc.content = <<>>
  /\ inflight[1].op = "addContent" /\ inflight[2].op = "generateEmail"
  /\ 1 \in DOMAIN campaigns /\ Len(campaigns[1].content) = 2

\* C25: a generation whose actor passes every check and whose generation
\* call succeeds answers 200 and appends its item whatever the scoring call
\* does: the item has an integer qualityScore in 0..100, and 75 when the
\* scoring call failed.
C25_ScoringNeverFails ==
  [][ (/\ last'.op = "generateEmail"
       /\ generationChecks(last'.cid, last'.pid, last'.actor) = 0)
      => LET id == last'.cid
             served(scoring) ==
               GenerateScoredEmailContent(last'.actor, id, last'.pid, scoring)
             appended ==
               /\ last'.code = 200
               /\ Len(campaigns'[id].content) = Len(campaigns[id].content) + 1
               /\ campaigns'[id].content[Len(campaigns'[id].content)].qualityScore
                    \in 0..100
         IN IF appended
            THEN campaigns'[id].content[Len(campaigns'[id].content)].qualityScore # 75
                 => ~served([threw |-> TRUE, text |-> <<>>])
            ELSE ~\E scoring \in Scorings : served(scoring) ]_vars

\* A campaign holds an item scored 100 (the scoring call answered a larger
\* number) after one scored 75.
C25_Witness ==
  /\ last.op = "generateEmail" /\ last.code = 200
  /\ 1 \in DOMAIN campaigns /\ Len(campaigns[1].content) = 2
  /\ campaigns[1].content[1].qualityScore = 75
  /\ campaigns[1].content[2].qualityScore = 100

\* C26: a content add whose body breaks contentSchema, sent by an actor who
\* may edit the campaign, is answered 400 and nothing is stored.
C26_SchemaViolationIs400 ==
  [][ (/\ last'.op = "addContent"
       /\ last'.cid \in DOMAIN campaigns
       /\ canBeEditedBy(campaigns[last'.cid], last'.actor) = "true")
      => \A i \in ManualContent :
           (~contentValid(i) /\ AddContentToCampaign(last'.actor, last'.cid, i))
           => (last'.code = 400 /\ campaigns' = campaigns) ]_vars

\* C27: the list uses page size 10 when the request gives no limit, and
\* never a page size above the documented maximum, whatever limit the
\* request gives.
C27_PageSizeCapped ==
  [][ last'.op = "getCampaigns"
      => /\ last'.n <= DocumentedMaxLimit
         /\ GetCampaigns(last'.actor, {}) => last'.n = DefaultLimit ]_vars

\* C28: the content of a campaign whose stored status is archived or
\* completed does not change.
C28_NoContentOnceArchived ==
  [][ \A id \in DOMAIN campaigns \cap DOMAIN campaigns' :
        campaigns[id].status \in {"archived", "completed"}
        => campaigns'[id].content = campaigns[id].content ]_vars

\* The number of the first call of the t-th contentType of a batch.
firstCall(contentTypes, t) ==
  1 + batchCalls(SubSeq(contentTypes, 1, t - 1), ThreePlatforms, 1)

\* The contentTypes of a batch whose first item the capability answers with
\* a valid item.
fitGroups(contentTypes, answers) ==
  {t \in 1..Len(contentTypes) :
     /\ batchItems(contentTypes[t], ThreePlatforms) # <<>>
     /\ answers[firstCall(contentTypes, t)] = "fit"}

FitOrUnfit == BoundedSeq({"fit", "unfit"}, MaxBatch)

\* C29: an item that fails schema validation on save leaves the loaded
\* campaign as it was, so in a batch whose calls all answer, the first item
\* of every contentType is stored when it is valid, whatever was rejected
\* before it in the same request.
C29_RejectedItemLeavesNoTrace ==
  [][ last'.op = "batchGenerate" /\ last'.code = 200
      => \A u \in Users, id \in CampaignIds, pid \in PersonaIds,
            ct \in BatchContentTypes, answers \in FitOrUnfit :
           BatchGenerate(u, id, pid, ct, ThreePlatforms, answers, {})
           => last'.generated >= Cardinality(fitGroups(ct, answers)) ]_vars

\* C30: in the notifier registry a user counts as connected exactly when
\* one of their sockets is still connected, emitToUser then targets a
\* connected socket of that user, and userSockets and socketUsers mirror
\* each other.
C30_RegistryMatchesSockets ==
  /\ \A u \in Users :
       isUserConnected(u) <=> \E s \in connected : sockets[s].userId = u
  /\ \A u \in DOMAIN userSockets :
       /\ userSockets[u] \in connected
       /\ userSockets[u] \in DOMAIN socketUsers
       /\ socketUsers[userSockets[u]] = u
  /\ \A s \in DOMAIN socketUsers :
       /\ socketUsers[s] \in DOMAIN userSockets
       /\ sockets[s].userId = socketUsers[s]
====
